---- MODULE Spec2Model ----
(***************************************************************************)
(* Model of the FlowGenix metrics pipeline: MarketingDataEngine            *)
(* (src/data_engine.py) and MetricsEngine (src/metrics_engine.py).         *)
(*                                                                         *)
(* A CSV file is a record [readable, header, rows]; a cell is the text     *)
(* found in the file.  A pandas float64 is a record [k, v]: k is "fin",    *)
(* "inf" or "nan" and v is the value in thousandths (fixed point), so      *)
(* that 1.5 is [k |-> "fin", v |-> 1500].  A datetime is the day ordinal   *)
(* of the date, NaT the missing datetime.  Python's None is the record     *)
(* None.  A call is one atomic step (the pipeline is synchronous and       *)
(* single-threaded); `path` records the stages the call went through.      *)
(*                                                                         *)
(* Not modelled: the avg_* fields of `performance` (they are computed      *)
(* after best_day / worst_day, cannot raise, and feed nothing else).       *)
(***************************************************************************)
EXTENDS Integers, Sequences, FiniteSets

(***************************************************************************)
(* Bounds of the exploration.                                              *)
(***************************************************************************)
\* longest table of a one-shot call (process_marketing_data, get_metrics)
MaxRows == 2
\* longest table handed to the long-lived engine instance
MaxSessionRows == 1
\* number of process_csv calls made on the long-lived engine instance
MaxCalls == 2

\* requests the upload route serves in a run
MaxRequests == 3

\* longest list of files handed to batch_process_files
MaxBatch == 3

(***************************************************************************)
(* Values.                                                                 *)
(***************************************************************************)
None == [tag |-> "None"]

NaT == 0

NaN == [k |-> "nan", v |-> 0]

Inf == [k |-> "inf", v |-> 0]

Fin(n) == [k |-> "fin", v |-> n]

REQUIRED_COLUMNS == <<"date", "spend", "clicks", "impressions", "conversions">>

numeric_cols == <<"spend", "clicks", "impressions", "conversions">>

Range(s) == {s[i] : i \in 1..Len(s)}

(***************************************************************************)
(* Cell texts the inputs are built from.                                   *)
(***************************************************************************)
DateTexts == <<"2024-01-01", "2024-01-02", "2024-01-03">>

DateCells == Range(DateTexts) \cup {"not-a-date"}

ConvCells == {"abc", "-1", "1", "2"}

SpendCells == {"0.5", "1.5"}

\* pd.to_datetime(cell, errors='coerce'): the day of an ISO date, else NaT
to_datetime_coerce(cell) ==
    IF \E d \in 1..Len(DateTexts) : DateTexts[d] = cell
    THEN CHOOSE d \in 1..Len(DateTexts) : DateTexts[d] = cell
    ELSE NaT

\* Timestamp.strftime('%Y-%m-%d')
strftime(d) == DateTexts[d]

\* pd.to_numeric(cell, errors='coerce'): the number a cell text denotes,
\* NaN for a text that is no number
to_numeric_coerce(cell) ==
    CASE cell = "-1"  -> Fin(-1000)
      [] cell = "0"   -> Fin(0)
      [] cell = "0.125" -> Fin(125)
      [] cell = "0.5" -> Fin(500)
      [] cell = "1"   -> Fin(1000)
      [] cell = "1.5" -> Fin(1500)
      [] cell = "2"   -> Fin(2000)
      [] cell = "3"   -> Fin(3000)
      [] cell = "10"  -> Fin(10000)
      [] cell = "inf" -> Inf
      [] OTHER        -> NaN

\* a fillna that leaves NaN in place
fillna0_Keeps(x) == x

\* Series.fillna(0)
fillna0(x) == IF x.k = "nan" THEN Fin(0) ELSE x

\* a clip that leaves negative values in place
clip_lower0_None(x) == x

\* Series.clip(lower=0)
clip_lower0(x) == IF x.k = "fin" /\ x.v < 0 THEN Fin(0) ELSE x

\* x > y on float64 without NaN
FloatGT(x, y) ==
    CASE x.k = "inf" -> y.k # "inf"
      [] y.k = "inf" -> FALSE
      [] OTHER       -> x.v > y.v

RECURSIVE SumFloat(_)
\* Series.sum() of a column without NaN: inf as soon as one value is inf
SumFloat(s) ==
    IF s = <<>> THEN Fin(0)
    ELSE LET rest == SumFloat(Tail(s)) IN
         IF Head(s).k = "inf" \/ rest.k = "inf" THEN Inf
         ELSE Fin(Head(s).v + rest.v)

\* int(x) raises OverflowError on an infinite float
IntRaises(x) == x.k = "inf"

\* int(x) of a finite float: truncation toward zero
IntOf(x) == IF x.v >= 0 THEN x.v \div 1000 ELSE -((-x.v) \div 1000)

\* nearest integer to n / d (d > 0), ties to the even one
RoundDiv(n, d) ==
    LET a == IF n >= 0 THEN n ELSE -n
        q == a \div d
        r == a % d
        m == IF 2 * r < d THEN q
             ELSE IF 2 * r > d THEN q + 1
             ELSE IF q % 2 = 0 THEN q ELSE q + 1
    IN IF n >= 0 THEN m ELSE -m

\* round(n / d, 2), n / d being a value in thousandths
Round2(n, d) == Fin(10 * RoundDiv(n, 10 * d))

(***************************************************************************)
(* Input files.                                                            *)
(***************************************************************************)
SeqsUpTo(S, n) == UNION {[1..k -> S] : k \in 0..n}

RawRows ==
    [date : DateCells, spend : SpendCells, clicks : {"3"},
     impressions : {"10"}, conversions : ConvCells]

\* rows of the tables handed to the long-lived engine: a clean row, a row
\* with an unparseable date, a row with an infinite click count
SessionRows ==
    {[date |-> "2024-01-01", spend |-> "1.5", clicks |-> "3",
      impressions |-> "10", conversions |-> "1"],
     [date |-> "not-a-date", spend |-> "1.5", clicks |-> "3",
      impressions |-> "10", conversions |-> "1"],
     [date |-> "2024-01-02", spend |-> "0.5", clicks |-> "inf",
      impressions |-> "10", conversions |-> "2"]}

\* columns the header of a session file may lack
SessionLacks == {"date", "spend", "clicks", "conversions"}

PlainRow ==
    [date |-> "2024-01-03", spend |-> "0.5", clicks |-> "3",
     impressions |-> "10", conversions |-> "2"]

Unreadable == [readable |-> FALSE, header |-> {}, rows |-> <<>>]

\* well-formed tables with every required column
Files ==
    [readable : {TRUE}, header : {Range(REQUIRED_COLUMNS)},
     rows : SeqsUpTo(RawRows, MaxRows)]

\* tables whose header lacks required columns, with 0..MaxSessionRows rows
LackingFiles ==
    [readable : {TRUE},
     header : {Range(REQUIRED_COLUMNS) \ l : l \in (SUBSET SessionLacks) \ {{}}},
     rows : {[i \in 1..n |-> PlainRow] : n \in 0..MaxSessionRows}]

\* rows whose numeric cells are texts that are no number, negative numbers
\* and plain numbers, on a day that parses; two of them on a day that does
\* not
CellRows ==
    LET numerics == [spend : {"abc", "2"}, clicks : {"abc", "2"},
                     impressions : {"abc", "2"}, conversions : {"abc", "2"}]
                    \cup
                    [spend : {"-1", "2"}, clicks : {"-1", "2"},
                     impressions : {"-1", "2"}, conversions : {"-1", "2"}]
        On(date, n) == [date |-> date, spend |-> n.spend, clicks |-> n.clicks,
                        impressions |-> n.impressions,
                        conversions |-> n.conversions]
    IN {On("2024-01-01", n) : n \in numerics}
       \cup {On("not-a-date", n) :
                 n \in [spend : {"abc", "-1"}, clicks : {"2"},
                        impressions : {"2"}, conversions : {"2"}]}

CellFiles ==
    [readable : {TRUE}, header : {Range(REQUIRED_COLUMNS)},
     rows : SeqsUpTo(CellRows, MaxRows)]

\* rows of well-formed numbers on one day: zero and positive counts, a
\* fractional click count, spends of zero, below 1 with 3 decimals and above 1
RateRows ==
    [date : {"2024-01-01"}, spend : {"0", "0.125", "1.5"},
     clicks : {"0", "0.5", "3"}, impressions : {"0", "10"},
     conversions : {"0", "1"}]

RateFiles ==
    [readable : {TRUE}, header : {Range(REQUIRED_COLUMNS)},
     rows : SeqsUpTo(RateRows, MaxRows)]

SessionFiles ==
    {Unreadable} \cup LackingFiles \cup
    [readable : {TRUE}, header : {Range(REQUIRED_COLUMNS)},
     rows : SeqsUpTo(SessionRows, MaxSessionRows)]

(***************************************************************************)
(* MarketingDataEngine (src/data_engine.py).  `self` is the record of the  *)
(* instance's fields [df, metrics, validation_errors]; a method is an      *)
(* operator from `self` to the updated `self`.                             *)
(***************************************************************************)
\* MarketingDataEngine.__init__
NewEngine == [df |-> None, metrics |-> None, validation_errors |-> <<>>]

\* a read that never fails and yields an empty table for an unreadable file
ReadCsvRaises_Never(file) == FALSE

\* pd.read_csv raises on a file it cannot read or parse
ReadCsvRaises(file) == ~file.readable

\* pd.read_csv: the table of raw cells under the header of the file
read_csv(file) == [columns |-> file.header, rows |-> file.rows]

\* f"Missing required columns: {missing_cols}"
MissingColumnsError(cols) == [error |-> "Missing required columns", cols |-> cols]

EmptyDatasetError == [error |-> "Empty dataset", cols |-> <<>>]

\* f"File read error: {str(e)}"
FileReadError == [error |-> "File read error", cols |-> <<>>]

\* missing_cols with the scan starting after the first required column
missing_cols_SkipsFirst(df) ==
    SelectSeq(Tail(REQUIRED_COLUMNS), LAMBDA col : col \notin df.columns)

\* [col for col in REQUIRED_COLUMNS if col not in df.columns]
missing_cols(df) ==
    SelectSeq(REQUIRED_COLUMNS, LAMBDA col : col \notin df.columns)

\* the empty-dataset test made on the columns instead of the rows
IsEmptyDataset_NoColumns(df) == df.columns = {}

\* len(self.df) == 0
IsEmptyDataset(df) == Len(df.rows) = 0

\* _load_and_validate without the return of the missing-columns branch
ReachesEmptyCheck_NoReturn(df) == TRUE

\* whether the trailing empty-dataset check of _load_and_validate is
\* reached: the missing-columns branch returns before it
ReachesEmptyCheck(df) == missing_cols(df) = <<>>

_load_and_validate(self, file) ==
    IF ReadCsvRaises(file)
    THEN [self EXCEPT !.validation_errors = Append(@, FileReadError)]
    ELSE LET df == read_csv(file)
             e1 == IF missing_cols(df) # <<>>
                   THEN <<MissingColumnsError(missing_cols(df))>> ELSE <<>>
             e2 == IF ReachesEmptyCheck(df) /\ IsEmptyDataset(df)
                   THEN <<EmptyDatasetError>> ELSE <<>>
         IN [self EXCEPT !.df = df,
                         !.validation_errors = @ \o e1 \o e2]

\* one row after the conversions of _clean_data (lines 71-79)
CoerceRow(r) ==
    [date        |-> to_datetime_coerce(r.date),
     spend       |-> fillna0(to_numeric_coerce(r.spend)),
     clicks      |-> fillna0(to_numeric_coerce(r.clicks)),
     impressions |-> fillna0(to_numeric_coerce(r.impressions)),
     conversions |-> fillna0(to_numeric_coerce(r.conversions))]

\* one row after the clipping of _clean_data (lines 85-86)
ClipRow(r) ==
    [date        |-> r.date,
     spend       |-> clip_lower0(r.spend),
     clicks      |-> clip_lower0(r.clicks),
     impressions |-> clip_lower0(r.impressions),
     conversions |-> clip_lower0(r.conversions)]

\* a dropna that keeps every row
dropna_date_KeepsAll(rows) == rows

\* df.dropna(subset=['date']): rows with a date, in their order
dropna_date(rows) == SelectSeq(rows, LAMBDA r : r.date # NaT)

\* _clean_data raises TypeError on a table that was never loaded and
\* KeyError on a table without one of the columns it converts
CleanRaises(self) ==
    \/ self.df = None
    \/ ~(Range(REQUIRED_COLUMNS) \subseteq self.df.columns)

_clean_data(self) ==
    LET coerced == [i \in 1..Len(self.df.rows) |-> CoerceRow(self.df.rows[i])]
        kept    == dropna_date(coerced)
    IN [self EXCEPT !.df.rows = [i \in 1..Len(kept) |-> ClipRow(kept[i])]]

Column(rows, col) == [i \in 1..Len(rows) |-> rows[i][col]]

\* Series.idxmax(): the first row holding the maximum
idxmax(s) ==
    CHOOSE i \in 1..Len(s) :
        /\ \A j \in 1..Len(s) : ~FloatGT(s[j], s[i])
        /\ \A j \in 1..(i - 1) : FloatGT(s[i], s[j])

\* Series.idxmin(): the first row holding the minimum
idxmin(s) ==
    CHOOSE i \in 1..Len(s) :
        /\ \A j \in 1..Len(s) : ~FloatGT(s[i], s[j])
        /\ \A j \in 1..(i - 1) : FloatGT(s[j], s[i])

\* the {date, conversions, spend} snapshot of one row
DaySnapshot(r) ==
    [date |-> strftime(r.date), conversions |-> IntOf(r.conversions),
     spend |-> r.spend]

\* the totals dict (lines 91-96): the spend sum as a float, the other sums
\* truncated to int
Totals(rows) ==
    [spend       |-> SumFloat(Column(rows, "spend")),
     clicks      |-> IntOf(SumFloat(Column(rows, "clicks"))),
     impressions |-> IntOf(SumFloat(Column(rows, "impressions"))),
     conversions |-> IntOf(SumFloat(Column(rows, "conversions")))]

\* the int(...) of an infinite column sum raises OverflowError (lines 94-96)
TotalsRaise(rows) ==
    \E col \in {"clicks", "impressions", "conversions"} :
        IntRaises(SumFloat(Column(rows, col)))

\* a guard that lets a zero denominator through
GuardPositive_NonNeg(n) == n >= 0

\* the guard `... if n > 0 else 0.0` of a rate (lines 103-107)
GuardPositive(n) == n > 0

\* a division behind its guard raises ZeroDivisionError when the guard lets
\* a zero denominator through
RatesRaise(totals) ==
    \E n \in {totals.impressions, totals.clicks, totals.conversions} :
        GuardPositive(n) /\ n = 0

\* spend / n for an integer n > 0, rounded to 2 places
SpendPer(spend, n) == IF spend.k = "inf" THEN Inf ELSE Round2(spend.v, n)

\* ctr without the factor 100
Rates_NoPercent(totals) ==
    [ctr |-> IF GuardPositive(totals.impressions)
             THEN Round2(totals.clicks * 1000, totals.impressions)
             ELSE Fin(0),
     conversion_rate |-> IF GuardPositive(totals.clicks)
             THEN Round2(totals.conversions * 100000, totals.clicks)
             ELSE Fin(0),
     cpc |-> IF GuardPositive(totals.clicks)
             THEN SpendPer(totals.spend, totals.clicks)
             ELSE Fin(0),
     cpa |-> IF GuardPositive(totals.conversions)
             THEN SpendPer(totals.spend, totals.conversions)
             ELSE Fin(0)]

\* the rates dict (lines 103-114), each rate computed from the totals and
\* rounded to 2 places
Rates(totals) ==
    [ctr |-> IF GuardPositive(totals.impressions)
             THEN Round2(totals.clicks * 100000, totals.impressions)
             ELSE Fin(0),
     conversion_rate |-> IF GuardPositive(totals.clicks)
             THEN Round2(totals.conversions * 100000, totals.clicks)
             ELSE Fin(0),
     cpc |-> IF GuardPositive(totals.clicks)
             THEN SpendPer(totals.spend, totals.clicks)
             ELSE Fin(0),
     cpa |-> IF GuardPositive(totals.conversions)
             THEN SpendPer(totals.spend, totals.conversions)
             ELSE Fin(0)]

\* NaT.strftime raises ValueError: the date of the best or worst row
\* (lines 125, 130)
SnapshotRaises(rows) ==
    /\ rows # <<>>
    /\ \/ rows[idxmax(Column(rows, "conversions"))].date = NaT
       \/ rows[idxmin(Column(rows, "conversions"))].date = NaT

\* the first exception _compute_metrics raises, None when it raises none
ComputeException(self) ==
    IF TotalsRaise(self.df.rows)
    THEN "cannot convert float infinity to integer"
    ELSE IF RatesRaise(Totals(self.df.rows)) THEN "division by zero"
    ELSE IF SnapshotRaises(self.df.rows)
    THEN "NaTType does not support strftime"
    ELSE "none"

ComputeRaises(self) == ComputeException(self) # "none"

_compute_metrics(self, now) ==
    LET rows   == self.df.rows
        totals == Totals(rows)
        performance ==
            IF rows # <<>>
            THEN [best_day  |-> DaySnapshot(rows[idxmax(Column(rows, "conversions"))]),
                  worst_day |-> DaySnapshot(rows[idxmin(Column(rows, "conversions"))]),
                  data_points |-> Len(rows)]
            ELSE [best_day |-> None, worst_day |-> None, data_points |-> 0]
    IN [self EXCEPT !.metrics =
            [totals |-> totals, rates |-> Rates(totals),
             performance |-> performance,
             metadata |-> [processed_at |-> now, rows_processed |-> Len(rows)]]]

\* the dates Series.min() and Series.max() range over: NaT is skipped
Dates(rows) == Range(Column(rows, "date")) \ {NaT}

\* df['date'].min() of a table without a date is NaT, and NaT.strftime
\* raises ValueError (lines 175-176)
StructureRaises(self) == Dates(self.df.rows) = {}

MinDate(rows) == CHOOSE d \in Dates(rows) : \A e \in Dates(rows) : d <= e

MaxDate(rows) == CHOOSE d \in Dates(rows) : \A e \in Dates(rows) : d >= e

\* conversions * 100 / spend, without the floor of 1 on the divisor
Roi_NoFloor(totals) ==
    IF ~FloatGT(totals.spend, Fin(0)) THEN Fin(0)
    ELSE IF totals.spend.k = "inf" THEN Fin(0)
    ELSE Round2(totals.conversions * 100000000, totals.spend.v)

\* conversions * 100 / max(spend, 1) rounded to 2 places, 0.0 when spend is 0
Roi(totals) ==
    IF ~FloatGT(totals.spend, Fin(0)) THEN Fin(0)
    ELSE IF totals.spend.k = "inf" THEN Fin(0)
    ELSE Round2(totals.conversions * 100000000,
                IF totals.spend.v > 1000 THEN totals.spend.v ELSE 1000)

_structure_output(self) ==
    [status  |-> "success",
     data    |-> self.metrics,
     summary |-> [period_start |-> strftime(MinDate(self.df.rows)),
                  period_end   |-> strftime(MaxDate(self.df.rows)),
                  roi          |-> Roi(self.metrics.totals)]]

_format_error(self, now) ==
    [status |-> "error", validation_errors |-> self.validation_errors,
     timestamp |-> now]

\* the except clause letting the exception through
HandleException_Reraise(e, now) == [raised |-> TRUE, exception |-> e]

\* the except clause of process_csv (lines 39-44)
HandleException(e, now) ==
    [status |-> "error", message |-> <<"Processing failed", e>>,
     timestamp |-> now]

\* the branch taken only when several errors were recorded
HasValidationErrors_Several(self) == Len(self.validation_errors) > 1

\* the branch of process_csv on self.validation_errors (line 27)
HasValidationErrors(self) == self.validation_errors # <<>>

\* process_csv: the updated instance, the returned envelope and the stages
\* the call went through
process_csv(self, file, now) ==
    LET s1 == _load_and_validate(self, file) IN
    IF HasValidationErrors(s1)
    THEN [self |-> s1, ret |-> _format_error(s1, now),
          path |-> <<"load_and_validate", "format_error">>]
    ELSE IF CleanRaises(s1)
    THEN [self |-> s1, ret |-> HandleException("KeyError", now),
          path |-> <<"load_and_validate", "clean_data">>]
    ELSE LET s2 == _clean_data(s1) IN
         IF ComputeRaises(s2)
         THEN [self |-> s2,
               ret  |-> HandleException(ComputeException(s2), now),
               path |-> <<"load_and_validate", "clean_data", "compute_metrics">>]
         ELSE LET s3 == _compute_metrics(s2, now) IN
              IF StructureRaises(s3)
              THEN [self |-> s3,
                    ret  |-> HandleException("NaTType does not support strftime", now),
                    path |-> <<"load_and_validate", "clean_data",
                               "compute_metrics", "structure_output">>]
              ELSE [self |-> s3, ret |-> _structure_output(s3),
                    path |-> <<"load_and_validate", "clean_data",
                               "compute_metrics", "structure_output">>]

\* process_marketing_data: process_csv on an instance of its own
process_marketing_data(file, now) == process_csv(NewEngine, file, now)

(***************************************************************************)
(* batch_process_files (src/data_engine.py).                               *)
(***************************************************************************)
\* x + y on floats without NaN
AddFloat(x, y) ==
    IF x.k = "inf" \/ y.k = "inf" THEN Inf ELSE Fin(x.v + y.v)

\* the aggregated dict before the loop (lines 344-363)
NewAggregated ==
    [status |-> "success", files_processed |-> 0, files_failed |-> 0,
     aggregated_metrics |->
         [totals |-> [spend |-> Fin(0), clicks |-> 0, impressions |-> 0,
                      conversions |-> 0],
          rates  |-> [ctr |-> Fin(0), conversion_rate |-> Fin(0),
                      cpc |-> Fin(0), cpa |-> Fin(0)]],
     file_results |-> <<>>]

\* totals that take the totals of the file instead of adding them
AddTotals_Overwrite(totals, result) == result.data.totals

\* the loop over the keys of the totals (lines 372-376): += for each
AddTotals(totals, result) ==
    [spend       |-> AddFloat(totals.spend, result.data.totals.spend),
     clicks      |-> totals.clicks + result.data.totals.clicks,
     impressions |-> totals.impressions + result.data.totals.impressions,
     conversions |-> totals.conversions + result.data.totals.conversions]

\* result.get("validation_errors", ["Unknown error"])
ErrorsOf(result) ==
    IF "validation_errors" \in DOMAIN result THEN result.validation_errors
    ELSE <<"Unknown error">>

\* one turn of the loop over file_paths (lines 365-388)
BatchStep(aggregated, file_path, now) ==
    LET result == process_marketing_data(file_path, now).ret IN
    IF result.status = "success"
    THEN [aggregated EXCEPT
             !.files_processed = @ + 1,
             !.aggregated_metrics.totals = AddTotals(@, result),
             !.file_results = Append(@, [file |-> file_path, status |-> "success",
                                         summary |-> result.summary])]
    ELSE [aggregated EXCEPT
             !.files_failed = @ + 1,
             !.file_results = Append(@, [file |-> file_path, status |-> "error",
                                         errors |-> ErrorsOf(result)])]

RECURSIVE BatchLoop(_, _, _)
\* the loop over file_paths, in their order
BatchLoop(aggregated, file_paths, now) ==
    IF file_paths = <<>> THEN aggregated
    ELSE BatchLoop(BatchStep(aggregated, Head(file_paths), now),
                   Tail(file_paths), now)

\* batch_process_files: the loop, then the rates of the aggregated totals
\* behind the guards of Rates (lines 391-407)
batch_process_files(file_paths, now) ==
    LET aggregated == BatchLoop(NewAggregated, file_paths, now) IN
    [aggregated EXCEPT
        !.aggregated_metrics.rates = Rates(aggregated.aggregated_metrics.totals)]

\* the files a batch is made of: unreadable, without the spend column,
\* without rows, and one-row tables that succeed or fail in processing
BatchFiles ==
    {Unreadable} \cup
    [readable : {TRUE}, header : {Range(REQUIRED_COLUMNS) \ {"spend"}},
     rows : {<<PlainRow>>}] \cup
    [readable : {TRUE}, header : {Range(REQUIRED_COLUMNS)},
     rows : SeqsUpTo(SessionRows \cup {PlainRow}, 1)]

(***************************************************************************)
(* OptimizedMarketingDataEngine (src/data_engine.py), the subclass that    *)
(* overrides _clean_data and _compute_metrics and inherits the rest.       *)
(***************************************************************************)
\* the dtype of a numeric column as read_csv and to_numeric leave it: int64
\* when every cell is a whole number, float64 otherwise
IsInt64(rows, col) ==
    \A i \in 1..Len(rows) :
        LET x == to_numeric_coerce(rows[i][col])
        IN x.k = "fin" /\ x.v % 1000 = 0

\* one row after the conversions of the subclass (lines 503-510): NaN stays
Optimized_CoerceRow(r) ==
    [date        |-> to_datetime_coerce(r.date),
     spend       |-> to_numeric_coerce(r.spend),
     clicks      |-> to_numeric_coerce(r.clicks),
     impressions |-> to_numeric_coerce(r.impressions),
     conversions |-> to_numeric_coerce(r.conversions)]

\* df[numeric_cols].fillna(0).sum(axis=1) > 0 for one row
mask_has_data(r) ==
    FloatGT(SumFloat([i \in 1..Len(numeric_cols) |-> fillna0(r[numeric_cols[i]])]),
            Fin(0))

mask_valid_date(r) == r.date # NaT

\* one row after fillna(0) and clip(lower=0) (lines 523-527)
Optimized_FillClipRow(r) ==
    [date        |-> r.date,
     spend       |-> clip_lower0(fillna0(r.spend)),
     clicks      |-> clip_lower0(fillna0(r.clicks)),
     impressions |-> clip_lower0(fillna0(r.impressions)),
     conversions |-> clip_lower0(fillna0(r.conversions))]

\* OptimizedMarketingDataEngine._clean_data; int64 holds the numeric
\* columns of dtype int64
Optimized_clean_data(self) ==
    LET raw     == self.df.rows
        coerced == [i \in 1..Len(raw) |-> Optimized_CoerceRow(raw[i])]
        kept    == SelectSeq(coerced,
                             LAMBDA r : mask_valid_date(r) /\ mask_has_data(r))
    IN [self EXCEPT !.df =
            [columns |-> self.df.columns,
             rows    |-> [i \in 1..Len(kept) |-> Optimized_FillClipRow(kept[i])],
             int64   |-> {col \in Range(numeric_cols) : IsInt64(raw, col)}]]

\* avg_ctr and avg_cpc pass np.full_like(column, nan) as `out` of np.divide:
\* for an int64 clicks (avg_ctr) or spend (avg_cpc) column the float64
\* quotient cannot be cast to the output and the call raises (lines 606-622)
AveragesRaise(df) ==
    /\ df.rows # <<>>
    /\ ("clicks" \in df.int64 \/ "spend" \in df.int64)

\* the first exception the subclass's _compute_metrics raises
Optimized_ComputeException(self) ==
    IF TotalsRaise(self.df.rows)
    THEN "cannot convert float infinity to integer"
    ELSE IF AveragesRaise(self.df)
    THEN "Cannot cast ufunc 'divide' output"
    ELSE "none"

\* OptimizedMarketingDataEngine._compute_metrics: np.divide(..., where=
\* total > 0) on an output of zeros gives the rates of Rates; np.argmax and
\* np.argmin pick the first extremal row as idxmax and idxmin do
Optimized_compute_metrics(self, now) ==
    LET rows   == self.df.rows
        totals == Totals(rows)
        performance ==
            IF rows # <<>>
            THEN [best_day  |-> DaySnapshot(rows[idxmax(Column(rows, "conversions"))]),
                  worst_day |-> DaySnapshot(rows[idxmin(Column(rows, "conversions"))]),
                  data_points |-> Len(rows)]
            ELSE [best_day |-> None, worst_day |-> None, data_points |-> 0]
    IN [self EXCEPT !.metrics =
            [_metadata |-> [processed_at |-> now, rows |-> Len(rows)],
             totals |-> totals, rates |-> Rates(totals),
             performance |-> performance]]

\* process_csv as the subclass inherits it, with its own two stages
Optimized_process_csv(self, file, now) ==
    LET s1 == _load_and_validate(self, file) IN
    IF HasValidationErrors(s1)
    THEN [self |-> s1, ret |-> _format_error(s1, now),
          path |-> <<"load_and_validate", "format_error">>]
    ELSE IF CleanRaises(s1)
    THEN [self |-> s1, ret |-> HandleException("KeyError", now),
          path |-> <<"load_and_validate", "clean_data">>]
    ELSE LET s2 == Optimized_clean_data(s1) IN
         IF Optimized_ComputeException(s2) # "none"
         THEN [self |-> s2,
               ret  |-> HandleException(Optimized_ComputeException(s2), now),
               path |-> <<"load_and_validate", "clean_data", "compute_metrics">>]
         ELSE LET s3 == Optimized_compute_metrics(s2, now) IN
              IF StructureRaises(s3)
              THEN [self |-> s3,
                    ret  |-> HandleException("NaTType does not support strftime", now),
                    path |-> <<"load_and_validate", "clean_data",
                               "compute_metrics", "structure_output">>]
              ELSE [self |-> s3, ret |-> _structure_output(s3),
                    path |-> <<"load_and_validate", "clean_data",
                               "compute_metrics", "structure_output">>]

\* rows for the two engines: whole-numbered and fractional cells, a row of
\* zeros, a row of texts that are no numbers, a row whose cells sum to a
\* negative value, a row without a date
EquivRows ==
    LET Row(d, s, c, i, v) == [date |-> d, spend |-> s, clicks |-> c,
                               impressions |-> i, conversions |-> v]
    IN {Row("2024-01-01", "2", "3", "10", "1"),
        Row("2024-01-02", "1.5", "0.5", "10", "2"),
        Row("2024-01-03", "0.5", "0.5", "10", "2"),
        Row("2024-01-01", "0", "0", "0", "0"),
        Row("2024-01-02", "abc", "abc", "abc", "abc"),
        Row("2024-01-03", "1", "-1", "-1", "0"),
        Row("2024-01-03", "1.5", "abc", "10", "1"),
        Row("not-a-date", "1.5", "0.5", "10", "1")}

EquivFiles ==
    {Unreadable} \cup
    [readable : {TRUE},
     header : {Range(REQUIRED_COLUMNS), Range(REQUIRED_COLUMNS) \ {"clicks"}},
     rows : SeqsUpTo(EquivRows, MaxRows)]

(***************************************************************************)
(* MetricsEngine (src/metrics_engine.py).  get_metrics either raises or    *)
(* returns the metrics dict; a raised exception is the record Raised(..),  *)
(* the empty dict {} is EmptyDict.                                         *)
(***************************************************************************)
Raised(e) == [raised |-> e]

EmptyDict == [x \in {} |-> 0]

\* pd.to_datetime(column) without errors='coerce' raises on a text that is
\* no date (line 28)
ToDatetimeRaises(rows) ==
    \E i \in 1..Len(rows) : to_datetime_coerce(rows[i].date) = NaT

\* one row after the conversions of _load_data (lines 23-28): no clipping
LoadRow(r) ==
    [date        |-> to_datetime_coerce(r.date),
     spend       |-> fillna0(to_numeric_coerce(r.spend)),
     clicks      |-> fillna0(to_numeric_coerce(r.clicks)),
     impressions |-> fillna0(to_numeric_coerce(r.impressions)),
     conversions |-> fillna0(to_numeric_coerce(r.conversions))]

\* _load_data raises: unreadable file, missing column (_validate_columns),
\* unparseable date
LoadDataRaises(file) ==
    \/ ReadCsvRaises(file)
    \/ missing_cols(read_csv(file)) # <<>>
    \/ ToDatetimeRaises(file.rows)

_load_data(file) == [i \in 1..Len(file.rows) |-> LoadRow(file.rows[i])]

RECURSIVE InsertByDate(_, _)
\* r put after the rows of the sorted sequence s that are not later than it
InsertByDate(s, r) ==
    IF s = <<>> THEN <<r>>
    ELSE IF Head(s).date <= r.date THEN <<Head(s)>> \o InsertByDate(Tail(s), r)
    ELSE <<r>> \o s

RECURSIVE sort_values_date(_)
\* df.sort_values(by='date'): ascending; rows of one date keep their order
\* (the sort numpy applies to tables this short is an insertion sort)
sort_values_date(rows) ==
    IF rows = <<>> THEN <<>>
    ELSE InsertByDate(sort_values_date(SubSeq(rows, 1, Len(rows) - 1)),
                      rows[Len(rows)])

\* int(total) of an infinite total raises OverflowError (lines 67-69)
CalculateRaises(rows) ==
    \E col \in {"clicks", "impressions", "conversions"} :
        IntRaises(SumFloat(Column(rows, col)))

\* round(x, 2) of a float
RoundFloat2(x) == IF x.k = "fin" THEN Round2(x.v, 1) ELSE x

\* (a / b * scale) rounded to 2 places for finite b > 0
Ratio2(a, b, scale) ==
    IF a.k = "inf" THEN Inf ELSE Round2(a.v * scale * 1000, b.v)

\* the row idxmax picks in the table sorted by date
best_day_row(daily_performance) ==
    daily_performance[idxmax(Column(daily_performance, "conversions"))]

\* the row idxmin picks in the table sorted by date
worst_day_row(daily_performance) ==
    daily_performance[idxmin(Column(daily_performance, "conversions"))]

\* the snapshot of a day in the metrics dict (lines 73-82)
DayEntry(r) ==
    [date |-> strftime(r.date), conversions |-> IntOf(r.conversions),
     spend |-> RoundFloat2(r.spend)]

_calculate_metrics(rows) ==
    IF rows = <<>> THEN EmptyDict
    ELSE
    LET total_spend       == SumFloat(Column(rows, "spend"))
        total_clicks      == SumFloat(Column(rows, "clicks"))
        total_impressions == SumFloat(Column(rows, "impressions"))
        total_conversions == SumFloat(Column(rows, "conversions"))
        daily_performance == sort_values_date(rows)
    IN [total_spend       |-> RoundFloat2(total_spend),
        total_clicks      |-> IntOf(total_clicks),
        total_impressions |-> IntOf(total_impressions),
        total_conversions |-> IntOf(total_conversions),
        ctr |-> IF FloatGT(total_impressions, Fin(0))
                THEN Ratio2(total_clicks, total_impressions, 100) ELSE Fin(0),
        conversion_rate |-> IF FloatGT(total_clicks, Fin(0))
                THEN Ratio2(total_conversions, total_clicks, 100) ELSE Fin(0),
        cost_per_conversion |-> IF FloatGT(total_conversions, Fin(0))
                THEN Ratio2(total_spend, total_conversions, 1) ELSE Fin(0),
        best_day  |-> DayEntry(best_day_row(daily_performance)),
        worst_day |-> DayEntry(worst_day_row(daily_performance))]

\* get_metrics: MetricsEngine(file_path).process()
get_metrics(file) ==
    IF LoadDataRaises(file) THEN Raised("Error loading data")
    ELSE IF CalculateRaises(_load_data(file))
    THEN Raised("cannot convert float infinity to integer")
    ELSE _calculate_metrics(_load_data(file))

(***************************************************************************)
(* AIEngine (src/ai_engine.py).  A metrics dict is abstracted to whether   *)
(* json.dumps accepts it; the reply of the LLM call is an exception, a     *)
(* message without content, or the text of the message.  A JSON text is    *)
(* given by the value it parses to: an object with its keys, an array with *)
(* its items, a string with the required keys occurring in it, a number or *)
(* null.                                                                   *)
(***************************************************************************)
required_keys == <<"executive_summary", "key_insights", "recommendations">>

\* json.dumps(metrics) raises TypeError on a value it cannot encode
JsonDumpsRaises(metrics) == ~metrics.serialisable

\* json.loads raises JSONDecodeError on a text that is no JSON
JsonDecodeError(text) == text.json = "none"

\* k in data raises TypeError on a number and on None
InRaises(data) == data.json \in {"number", "null"}

\* k in data: a key of an object, an item of an array, a substring of a
\* string
In(k, data) == k \in data.has

\* the value json.loads returns: the dict of an object, each value a text
\* (a text being the tuple of its parts), or the array, string, number or
\* null as it is
Parsed(data) ==
    IF data.json = "object" THEN [k \in data.has |-> <<"text">>]
    ELSE [json |-> data.json, has |-> data.has]

\* the dict returned for a text that is no JSON (lines 71-75)
ParsingFallback ==
    [executive_summary |-> <<"Error processing AI response structure.">>,
     key_insights      |-> <<"Parsing error in AI generation.">>,
     recommendations   |-> <<"Retry generation.">>]

\* the dict returned by the except clause of generate_analysis (lines 92-96)
FailureFallback(e) ==
    [executive_summary |-> <<"AI Analysis failed", e>>,
     key_insights      |-> <<>>,
     recommendations   |-> <<>>]

\* _validate_ai_output: Raised(e) or the value returned
_validate_ai_output(raw_content) ==
    IF raw_content = None
    THEN Raised("the JSON object must be str, bytes or bytearray, not NoneType")
    ELSE IF JsonDecodeError(raw_content) THEN ParsingFallback
    ELSE IF InRaises(raw_content)
    THEN Raised("argument is not iterable")
    ELSE IF ~(\A i \in 1..Len(required_keys) : In(required_keys[i], raw_content))
    THEN Raised("AI output missing required keys.")
    ELSE Parsed(raw_content)

\* generate_analysis: Raised(e) or the value returned; the prompt is built
\* before the try block
generate_analysis(metrics, reply) ==
    IF JsonDumpsRaises(metrics)
    THEN Raised("Object is not JSON serializable")
    ELSE IF reply.raises # "none" THEN FailureFallback(reply.raises)
    ELSE LET validated == _validate_ai_output(reply.content) IN
         IF DOMAIN validated = {"raised"}
         THEN FailureFallback(validated.raised)
         ELSE validated

\* metrics dicts: two that json.dumps encodes, one holding a value it does
\* not
MetricsDicts ==
    [serialisable : {TRUE}, total_clicks : {0, 3}]
    \cup [serialisable : {FALSE}, total_clicks : {3}]

\* the values a JSON text of the LLM parses to
JsonValues ==
    [json : {"object"}, has : SUBSET (Range(required_keys) \cup {"notes"})]
    \cup [json : {"array", "string"}, has : {{}, Range(required_keys)}]
    \cup [json : {"number", "null"}, has : {{}}]

\* replies of the LLM call
Replies ==
    [raises : {"timeout", "rate limit"}, content : {None}]
    \cup [raises : {"none"},
          content : {None, [json |-> "none", has |-> {}]} \cup JsonValues]

(***************************************************************************)
(* The orchestrator (src/report_generator.py).  It returns the report or   *)
(* the error dict, and `calls` lists the calls it made with the metrics    *)
(* handed to each.                                                         *)
(***************************************************************************)
\* the spend column is of dtype int64: every cell is a whole number
SpendIsInt64(file) == IsInt64(file.rows, "spend")

\* json.dumps encodes the metrics of get_metrics, except a total_spend that
\* is a numpy.int64: the sum of an int64 column, when round(., 2) of a
\* numpy.int64 keeps the type (int64_kept, a property of the numpy build)
Encodable(file, metrics, int64_kept) ==
    \/ metrics = EmptyDict
    \/ ~(SpendIsInt64(file) /\ int64_kept)

\* get_ai_analysis: generate_analysis on an AIEngine of its own
get_ai_analysis(metrics, encodable, reply) ==
    generate_analysis([serialisable |-> encodable, dict |-> metrics], reply)

\* dict.get raises AttributeError on a value that is no dict
GetRaises(ai_analysis) == DOMAIN ai_analysis = {"json", "has"}

\* ai_analysis.get(key, default)
Get(ai_analysis, key, default) ==
    IF key \in DOMAIN ai_analysis THEN ai_analysis[key] ELSE default

\* the dict of the except clause (lines 26-32)
ErrorReport(e) ==
    [error |-> e, metrics |-> None, summary |-> None, recommendations |-> <<>>]

CallOf(name, metrics) == [call |-> name, metrics |-> metrics]

generate_report_from_csv(file, reply, int64_kept) ==
    LET metrics == get_metrics(file) IN
    IF DOMAIN metrics = {"raised"}
    THEN [ret   |-> ErrorReport(metrics.raised),
          calls |-> <<CallOf("get_metrics", None)>>]
    ELSE LET ai_analysis ==
                 get_ai_analysis(metrics, Encodable(file, metrics, int64_kept),
                                 reply)
             calls == <<CallOf("get_metrics", None),
                        CallOf("get_ai_analysis", metrics)>>
         IN IF DOMAIN ai_analysis = {"raised"}
            THEN [ret |-> ErrorReport(ai_analysis.raised), calls |-> calls]
            ELSE IF GetRaises(ai_analysis)
            THEN [ret   |-> ErrorReport("object has no attribute 'get'"),
                  calls |-> calls]
            ELSE [ret |-> [metrics |-> metrics,
                           summary |-> Get(ai_analysis, "executive_summary", <<"">>),
                           insights |-> Get(ai_analysis, "key_insights", <<>>),
                           recommendations |->
                               Get(ai_analysis, "recommendations", <<>>)],
                  calls |-> calls]

\* rows of the files handed to the orchestrator: those of SessionRows and
\* a row with a whole-numbered spend
ReportRows ==
    SessionRows \cup
    {[date |-> "2024-01-03", spend |-> "2", clicks |-> "3",
      impressions |-> "10", conversions |-> "1"]}

ReportFiles ==
    {Unreadable} \cup
    [readable : {TRUE},
     header : {Range(REQUIRED_COLUMNS), Range(REQUIRED_COLUMNS) \ {"spend"}},
     rows : SeqsUpTo(ReportRows, MaxRows)]

(***************************************************************************)
(* The upload route (src/backend/routers/upload.py) and its temporary      *)
(* file (src/backend/utils/file_handler.py).  A file system is the record  *)
(* [files, open]: the temporary files on disk with their contents, and the *)
(* descriptors the process holds open, each with the call that opened it.  *)
(***************************************************************************)
EmptyFs == [files |-> {}, open |-> {}]

\* tempfile.mkstemp(suffix=".csv"): creates an empty file and returns an
\* open descriptor of it with its path
mkstemp(f, p) ==
    [files |-> f.files \cup {[path |-> p, data |-> ""]},
     open  |-> f.open \cup {[path |-> p, by |-> "mkstemp"]}]

\* open(temp_path, "wb")
open_wb(f, p) ==
    [files |-> {x \in f.files : x.path # p} \cup {[path |-> p, data |-> ""]},
     open  |-> f.open \cup {[path |-> p, by |-> "open"]}]

\* buffer.write(data)
write(f, p, data) ==
    [f EXCEPT !.files = {x \in f.files : x.path # p}
                        \cup {[path |-> p, data |-> data]}]

\* leaving the with block closes buffer, the handle open() returned
close_buffer(f, p) == [f EXCEPT !.open = @ \ {[path |-> p, by |-> "open"]}]

\* save_uploaded_file(file) with p the path mkstemp picks: the file system
\* it leaves and the path it returns or the exception it raises.  The
\* descriptor mkstemp returns is bound to `_` and never closed.
save_uploaded_file(f, p, file, mkstemp_ok) ==
    IF ~mkstemp_ok THEN [fs |-> f, raised |-> "OSError", path |-> None]
    ELSE LET f1 == open_wb(mkstemp(f, p), p) IN
         IF ~file.read_ok
         THEN [fs |-> close_buffer(f1, p), raised |-> "read failed",
               path |-> None]
         ELSE [fs |-> close_buffer(write(f1, p, file.data), p),
               raised |-> "none", path |-> p]

\* services.data_engine.process_csv_file: a fixed dict
process_csv_file(filepath) ==
    [total_revenue |-> 123456, conversion_rate |-> Fin(3200),
     avg_customer_value |-> Fin(78900),
     campaign_performance |-> [A |-> Fin(4500), B |-> Fin(2100)],
     engagement_metrics |-> [clicks |-> 12345, impressions |-> 1234567]]

\* services.ai_engine.generate_report_summary: a fixed dict
generate_report_summary(metrics) ==
    [summary |-> "The campaign shows strong performance",
     recommendations |-> <<"Increase budget allocation to Campaign A.",
                           "Optimize landing page for higher conversion.",
                           "Run A/B tests on ad creatives.">>]

\* the handler of POST /generate-report: the file system it leaves and the
\* response
generate_report(f, p, file, mkstemp_ok) ==
    LET saved == save_uploaded_file(f, p, file, mkstemp_ok) IN
    IF saved.raised # "none"
    THEN [fs |-> saved.fs,
          response |-> [status_code |-> 500,
                        detail |-> <<"Internal server error", saved.raised>>]]
    ELSE LET metrics   == process_csv_file(saved.path)
             ai_result == generate_report_summary(metrics)
         IN [fs |-> saved.fs,
             response |-> [metrics |-> metrics, summary |-> ai_result.summary,
                           recommendations |-> ai_result.recommendations]]

\* the uploads a client sends: the bytes, and whether reading them succeeds
Uploads ==
    [data : {"", "date,spend", "date,spend,clicks,impressions,conversions"},
     read_ok : BOOLEAN]

(***************************************************************************)
(* State.                                                                  *)
(*   engine      the long-lived MarketingDataEngine instance               *)
(*   clock       the wall clock, one tick per call                         *)
(*   op, arg     the last call made and its input file                     *)
(*   ret, path   the value it returned (as it was when it returned) and    *)
(*               the stages it went through                                *)
(*   errs_before the number of validation errors the instance held when    *)
(*               the call started                                          *)
(*   prev_arg, prev_ret  input and result of the call made on `engine`     *)
(*               before the last one                                       *)
(*   fs          the temporary files on disk and the file descriptors the  *)
(*               server process holds open                                 *)
(***************************************************************************)
VARIABLES engine, clock, op, arg, ret, path, errs_before, prev_arg, prev_ret,
          fs

vars == <<engine, clock, op, arg, ret, path, errs_before, prev_arg, prev_ret,
          fs>>

Init ==
    /\ engine = NewEngine
    /\ clock = 0
    /\ op = "none"
    /\ arg = None
    /\ ret = None
    /\ path = <<>>
    /\ errs_before = 0
    /\ prev_arg = None
    /\ prev_ret = None
    /\ fs = EmptyFs

\* engine.process_csv(file) on the long-lived instance, as test_data_engine
\* calls it for one file after the other
ProcessCsv(file) ==
    /\ clock < MaxCalls
    /\ LET r == process_csv(engine, file, clock + 1) IN
       /\ engine' = r.self
       /\ ret' = r.ret
       /\ path' = r.path
    /\ clock' = clock + 1
    /\ op' = "process_csv"
    /\ arg' = file
    /\ errs_before' = Len(engine.validation_errors)
    /\ prev_arg' = arg
    /\ prev_ret' = ret
    /\ UNCHANGED fs

Next == \E file \in SessionFiles : ProcessCsv(file)

Spec == Init /\ [][Next]_vars

OneShotFiles == Files \cup LackingFiles \cup {Unreadable}

\* a one-shot run: the file is drawn at the start, then one call is made
InitOneShot ==
    /\ engine = NewEngine
    /\ clock = 0
    /\ op = "none"
    /\ arg \in OneShotFiles
    /\ ret = None
    /\ path = <<>>
    /\ errs_before = 0
    /\ prev_arg = None
    /\ prev_ret = None
    /\ fs = EmptyFs

\* process_marketing_data(arg): a call with an engine instance of its own
ProcessMarketingData ==
    /\ op = "none"
    /\ LET r == process_marketing_data(arg, clock + 1) IN
       /\ ret' = r.ret
       /\ path' = r.path
    /\ clock' = clock + 1
    /\ op' = "process_marketing_data"
    /\ UNCHANGED <<engine, arg, errs_before, prev_arg, prev_ret, fs>>

\* get_metrics(arg): a call with a MetricsEngine instance of its own
GetMetrics ==
    /\ op = "none"
    /\ ret' = get_metrics(arg)
    /\ clock' = clock + 1
    /\ op' = "get_metrics"
    /\ UNCHANGED <<engine, arg, path, errs_before, prev_arg, prev_ret, fs>>

NextOneShot == ProcessMarketingData \/ GetMetrics

SpecOneShot == InitOneShot /\ [][NextOneShot]_vars

\* a one-shot run on a file of CellFiles
InitCells ==
    /\ engine = NewEngine
    /\ clock = 0
    /\ op = "none"
    /\ arg \in CellFiles
    /\ ret = None
    /\ path = <<>>
    /\ errs_before = 0
    /\ prev_arg = None
    /\ prev_ret = None
    /\ fs = EmptyFs

SpecCells == InitCells /\ [][NextOneShot]_vars

\* a one-shot run on a file of RateFiles
InitRates ==
    /\ engine = NewEngine
    /\ clock = 0
    /\ op = "none"
    /\ arg \in RateFiles
    /\ ret = None
    /\ path = <<>>
    /\ errs_before = 0
    /\ prev_arg = None
    /\ prev_ret = None
    /\ fs = EmptyFs

SpecRates == InitRates /\ [][NextOneShot]_vars

\* a one-shot run of generate_analysis on a metrics dict and an LLM reply
InitAnalysis ==
    /\ engine = NewEngine
    /\ clock = 0
    /\ op = "none"
    /\ arg \in [metrics : MetricsDicts, reply : Replies]
    /\ ret = None
    /\ path = <<>>
    /\ errs_before = 0
    /\ prev_arg = None
    /\ prev_ret = None
    /\ fs = EmptyFs

\* AIEngine().generate_analysis(arg.metrics), the LLM answering arg.reply
GenerateAnalysis ==
    /\ op = "none"
    /\ ret' = generate_analysis(arg.metrics, arg.reply)
    /\ clock' = clock + 1
    /\ op' = "generate_analysis"
    /\ UNCHANGED <<engine, arg, path, errs_before, prev_arg, prev_ret, fs>>

NextAnalysis == GenerateAnalysis

SpecAnalysis == InitAnalysis /\ [][NextAnalysis]_vars

\* a one-shot run of generate_report_from_csv on a file, the LLM answering
\* arg.reply
InitReport ==
    /\ engine = NewEngine
    /\ clock = 0
    /\ op = "none"
    /\ arg \in [file : ReportFiles, reply : Replies, int64_kept : BOOLEAN]
    /\ ret = None
    /\ path = <<>>
    /\ errs_before = 0
    /\ prev_arg = None
    /\ prev_ret = None
    /\ fs = EmptyFs

\* generate_report_from_csv(arg.file); path takes the calls it made
GenerateReportFromCsv ==
    /\ op = "none"
    /\ LET r == generate_report_from_csv(arg.file, arg.reply, arg.int64_kept) IN
       /\ ret' = r.ret
       /\ path' = r.calls
    /\ clock' = clock + 1
    /\ op' = "generate_report_from_csv"
    /\ UNCHANGED <<engine, arg, errs_before, prev_arg, prev_ret, fs>>

NextReport == GenerateReportFromCsv

SpecReport == InitReport /\ [][NextReport]_vars

\* a one-shot run on a file of EquivFiles
InitEquiv ==
    /\ engine = NewEngine
    /\ clock = 0
    /\ op = "none"
    /\ arg \in EquivFiles
    /\ ret = None
    /\ path = <<>>
    /\ errs_before = 0
    /\ prev_arg = None
    /\ prev_ret = None
    /\ fs = EmptyFs

\* OptimizedMarketingDataEngine().process_csv(arg)
OptimizedProcessCsv ==
    /\ op = "none"
    /\ LET r == Optimized_process_csv(NewEngine, arg, clock + 1) IN
       /\ ret' = r.ret
       /\ path' = r.path
    /\ clock' = clock + 1
    /\ op' = "optimized_process_csv"
    /\ UNCHANGED <<engine, arg, errs_before, prev_arg, prev_ret, fs>>

NextEquiv == OptimizedProcessCsv \/ ProcessMarketingData

SpecEquiv == InitEquiv /\ [][NextEquiv]_vars

\* a one-shot run of batch_process_files on a list of files
InitBatch ==
    /\ engine = NewEngine
    /\ clock = 0
    /\ op = "none"
    /\ arg \in SeqsUpTo(BatchFiles, MaxBatch)
    /\ ret = None
    /\ path = <<>>
    /\ errs_before = 0
    /\ prev_arg = None
    /\ prev_ret = None
    /\ fs = EmptyFs

\* batch_process_files(arg)
BatchProcessFiles ==
    /\ op = "none"
    /\ ret' = batch_process_files(arg, clock + 1)
    /\ clock' = clock + 1
    /\ op' = "batch_process_files"
    /\ UNCHANGED <<engine, arg, path, errs_before, prev_arg, prev_ret, fs>>

NextBatch == BatchProcessFiles

SpecBatch == InitBatch /\ [][NextBatch]_vars

\* one request to POST /generate-report
GenerateReport(file, mkstemp_ok) ==
    /\ clock < MaxRequests
    /\ LET r == generate_report(fs, clock + 1, file, mkstemp_ok) IN
       /\ fs' = r.fs
       /\ ret' = r.response
    /\ clock' = clock + 1
    /\ op' = "generate_report"
    /\ arg' = file
    /\ UNCHANGED <<engine, path, errs_before, prev_arg, prev_ret>>

NextUpload ==
    \E file \in Uploads, mkstemp_ok \in BOOLEAN : GenerateReport(file, mkstemp_ok)

\* the server taking one report request after the other
SpecUpload == Init /\ [][NextUpload]_vars

(***************************************************************************)
(* Properties of process_csv on the long-lived instance (Spec).            *)
(***************************************************************************)
Called == op = "process_csv"

\* the validation errors the last call recorded itself
OwnErrors ==
    SubSeq(engine.validation_errors, errs_before + 1,
           Len(engine.validation_errors))

\* an envelope without its wall-clock fields (timestamp, processed_at)
StripTime(e) ==
    IF "timestamp" \in DOMAIN e THEN [e EXCEPT !.timestamp = 0]
    ELSE IF "data" \in DOMAIN e
    THEN [e EXCEPT !.data.metadata.processed_at = 0]
    ELSE e

IsSuccess(e) ==
    /\ DOMAIN e = {"status", "data", "summary"}
    /\ e.status = "success"

IsValidationFailure(e) ==
    /\ DOMAIN e = {"status", "validation_errors", "timestamp"}
    /\ e.status = "error"
    /\ e.validation_errors # <<>>

IsInternalFailure(e) ==
    /\ DOMAIN e = {"status", "message", "timestamp"}
    /\ e.status = "error"

MissingOf(file) == Range(REQUIRED_COLUMNS) \ file.header

AllDatesUnparseable(file) ==
    \A i \in 1..Len(file.rows) : file.rows[i].date \notin Range(DateTexts)

\* C1: no state is retained across requests: the envelope a call on the
\* long-lived instance returns is the envelope a new instance returns for
\* the same input (wall-clock fields apart), so a valid input is accepted
\* after a rejected one and a rejected call reports only its own errors.
C1_NoStateAcrossCalls ==
    Called => StripTime(ret) = StripTime(process_marketing_data(arg, clock).ret)

\* C2: idempotence: two successive process_csv calls of one instance on the
\* same input return the same envelope, wall-clock fields apart.
C2_Idempotent ==
    (Called /\ prev_arg = arg) => StripTime(prev_ret) = StripTime(ret)

\* C3: a table that passes validation and whose dates are all unparseable
\* gives a success envelope with zero totals and rates, no best or worst day
\* and data_points 0.
C3_EmptyAfterCleaning ==
    (/\ Called
     /\ "clean_data" \in Range(path)
     /\ AllDatesUnparseable(arg))
    => /\ IsSuccess(ret)
       /\ ret.data.totals = [spend |-> Fin(0), clicks |-> 0,
                             impressions |-> 0, conversions |-> 0]
       /\ \A r \in DOMAIN ret.data.rates : ret.data.rates[r] = Fin(0)
       /\ ret.data.performance.best_day = None
       /\ ret.data.performance.worst_day = None
       /\ ret.data.performance.data_points = 0

\* C4: when _load_and_validate records a validation error the call goes
\* load_and_validate -> format_error and nothing else (no cleaning, no
\* computation), and returns the error envelope with the non-empty list.
C4_ValidationShortCircuits ==
    (Called /\ OwnErrors # <<>>)
    => /\ path = <<"load_and_validate", "format_error">>
       /\ IsValidationFailure(ret)
       /\ ret.validation_errors = engine.validation_errors

C4_Witness ==
    /\ Called
    /\ OwnErrors # <<>>
    /\ arg.readable
    /\ arg.rows # <<>>
    /\ path = <<"load_and_validate", "format_error">>

\* C5: process_csv returns exactly one of the three envelopes (success,
\* validation failure with a non-empty list, internal failure with a
\* message) whatever the stage a fault occurs at, and never an envelope with
\* data next to validation_errors or message.
C5_OneOfThreeEnvelopes ==
    Called =>
       /\ IsSuccess(ret) \/ IsValidationFailure(ret) \/ IsInternalFailure(ret)
       /\ ~("data" \in DOMAIN ret /\ "validation_errors" \in DOMAIN ret)
       /\ ~("data" \in DOMAIN ret /\ "message" \in DOMAIN ret)
       /\ ~("validation_errors" \in DOMAIN ret /\ "message" \in DOMAIN ret)

C5_Witness ==
    /\ Called
    /\ path = <<"load_and_validate", "clean_data", "compute_metrics">>
    /\ IsInternalFailure(ret)

\* C8: for a readable table whose header lacks required columns, with any
\* number of rows, the call returns the validation-failure envelope and the
\* error it records names exactly the missing required columns.
C8_NamesMissingColumns ==
    (Called /\ arg.readable /\ MissingOf(arg) # {})
    => /\ IsValidationFailure(ret)
       /\ Len(OwnErrors) = 1
       /\ ret.validation_errors[Len(ret.validation_errors)] = OwnErrors[1]
       /\ OwnErrors[1].error = "Missing required columns"
       /\ Range(OwnErrors[1].cols) = MissingOf(arg)

C8_Witness ==
    /\ Called
    /\ arg.readable
    /\ Cardinality(MissingOf(arg)) >= 2
    /\ arg.rows # <<>>
    /\ IsValidationFailure(ret)

\* C9: for a table with every required column and zero rows the call
\* returns the validation-failure envelope, the empty-dataset error is in
\* it, and no metrics are computed.
C9_EmptyDataset ==
    (Called /\ arg.readable /\ MissingOf(arg) = {} /\ arg.rows = <<>>)
    => /\ IsValidationFailure(ret)
       /\ EmptyDatasetError \in Range(OwnErrors)
       /\ EmptyDatasetError \in Range(ret.validation_errors)
       /\ "compute_metrics" \notin Range(path)

C9_Witness ==
    /\ Called
    /\ arg.readable
    /\ MissingOf(arg) = {}
    /\ arg.rows = <<>>
    /\ ret.status = "error"

\* C10 as stated: a table that lacks a required column and has zero rows is
\* reported with the missing-columns error and the empty-dataset error.
C10_BothErrors ==
    (Called /\ arg.readable /\ MissingOf(arg) # {} /\ arg.rows = <<>>)
    => /\ "validation_errors" \in DOMAIN ret
       /\ EmptyDatasetError \in Range(ret.validation_errors)
       /\ \E i \in 1..Len(ret.validation_errors) :
              ret.validation_errors[i].error = "Missing required columns"

\* C10 amended: for a table that lacks a required column and has zero rows
\* the call records the missing-columns error alone; the empty-dataset
\* check is not made.
C10_MissingColumnsOnly ==
    (Called /\ arg.readable /\ MissingOf(arg) # {} /\ arg.rows = <<>>)
    => /\ IsValidationFailure(ret)
       /\ \A i \in 1..Len(OwnErrors) : OwnErrors[i] # EmptyDatasetError
       /\ \E i \in 1..Len(OwnErrors) :
              OwnErrors[i].error = "Missing required columns"

C10_Witness ==
    /\ Called
    /\ arg.readable
    /\ MissingOf(arg) # {}
    /\ arg.rows = <<>>
    /\ Len(OwnErrors) = 1

(***************************************************************************)
(* Properties of the best / worst day selection (SpecOneShot).             *)
(***************************************************************************)
\* the rows holding the maximum of conversions
MaxRowsOf(rows) ==
    {i \in 1..Len(rows) :
        \A j \in 1..Len(rows) : ~FloatGT(rows[j].conversions, rows[i].conversions)}

\* the rows holding the minimum of conversions
MinRowsOf(rows) ==
    {i \in 1..Len(rows) :
        \A j \in 1..Len(rows) : ~FloatGT(rows[i].conversions, rows[j].conversions)}

\* the clean records of a validated file
CleanRecords(file) == _clean_data(_load_and_validate(NewEngine, file)).df.rows

\* C6: best_day of MarketingDataEngine.process_csv is the earliest-dated
\* clean record among those sharing the maximum of conversions, whatever
\* the order of the rows in the file.
C6_BestDayEarliest ==
    (op = "process_marketing_data" /\ IsSuccess(ret))
    => LET rows == CleanRecords(arg) IN
       \A i \in MaxRowsOf(rows) :
           rows[i].date >= to_datetime_coerce(ret.data.performance.best_day.date)

\* C7: worst_day of MetricsEngine.process is the latest-dated record among
\* those sharing the minimum of conversions.
C7_WorstDayLatest ==
    (op = "get_metrics" /\ "worst_day" \in DOMAIN ret)
    => LET rows == _load_data(arg) IN
       \A i \in MinRowsOf(rows) :
           rows[i].date <= to_datetime_coerce(ret.worst_day.date)

(***************************************************************************)
(* Unreadable input (Spec).                                                *)
(***************************************************************************)
\* C11: for an input that cannot be read as a table, the call records the
\* file read error and no other (the missing-columns and empty-dataset
\* checks are not made) and returns the validation-failure envelope without
\* cleaning or computing.
C11_UnreadableFirst ==
    (Called /\ ~arg.readable)
    => /\ OwnErrors = <<FileReadError>>
       /\ IsValidationFailure(ret)
       /\ ret.validation_errors[Len(ret.validation_errors)] = FileReadError
       /\ path = <<"load_and_validate", "format_error">>

C11_Witness ==
    /\ Called
    /\ ~arg.readable
    /\ errs_before = 0
    /\ ret.validation_errors = <<FileReadError>>

(***************************************************************************)
(* Rows without a date (SpecOneShot).                                      *)
(***************************************************************************)
\* the rows of a file whose date cell parses, in their order
DatedRows(file) ==
    SelectSeq(file.rows, LAMBDA r : to_datetime_coerce(r.date) # NaT)

\* the sum of a numeric column over the rows of a file whose date parses,
\* each cell converted, filled and clamped
DatedSum(file, col) ==
    SumFloat([i \in 1..Len(DatedRows(file)) |->
                  clip_lower0(fillna0(to_numeric_coerce(DatedRows(file)[i][col])))])

\* C12: a row whose date cannot be parsed contributes to no output: the
\* metrics returned for a file are those returned for the file without
\* these rows, the totals are the sums over the rows with a date, best_day
\* and worst_day are rows with a date, and data_points counts the rows with
\* a date.
C12_UndatedRowsIgnored ==
    (op = "process_marketing_data" /\ IsSuccess(ret))
    => LET dated == [arg EXCEPT !.rows = DatedRows(arg)]
           perf  == ret.data.performance
       IN /\ StripTime(ret) = StripTime(process_marketing_data(dated, clock).ret)
          /\ ret.data.totals.spend = DatedSum(arg, "spend")
          /\ ret.data.totals.conversions = IntOf(DatedSum(arg, "conversions"))
          /\ ret.data.totals.clicks = IntOf(DatedSum(arg, "clicks"))
          /\ ret.data.totals.impressions = IntOf(DatedSum(arg, "impressions"))
          /\ perf.data_points = Len(DatedRows(arg))
          /\ ret.data.metadata.rows_processed = Len(DatedRows(arg))
          /\ \A day \in {perf.best_day, perf.worst_day} :
                 \E i \in 1..Len(DatedRows(arg)) :
                     /\ DatedRows(arg)[i].date = day.date
                     /\ clip_lower0(fillna0(to_numeric_coerce(
                            DatedRows(arg)[i].conversions))) = Fin(1000 * day.conversions)

C12_Witness ==
    /\ op = "process_marketing_data"
    /\ IsSuccess(ret)
    /\ Len(arg.rows) = 2
    /\ Len(DatedRows(arg)) = 1
    /\ to_datetime_coerce(arg.rows[1].date) = NaT
    /\ to_numeric_coerce(arg.rows[1].conversions) = Fin(2000)
    /\ ret.data.totals.conversions = 1

(***************************************************************************)
(* Numeric cells (SpecCells).                                              *)
(***************************************************************************)
\* the numeric cell texts of a row that are no number
Unparseable(r) ==
    {col \in Range(numeric_cols) : to_numeric_coerce(r[col]) = NaN}

\* C13: a numeric cell that cannot be parsed makes that field zero and
\* leaves the row in: the row is a clean record, counts in data_points, its
\* other fields keep their (clamped) values and enter the totals; this also
\* when all four numeric cells of the row fail.
C13_UnparseableCellIsZero ==
    (op = "process_marketing_data" /\ DatedRows(arg) # <<>>)
    => LET dated == DatedRows(arg)
           clean == CleanRecords(arg)
       IN /\ Len(clean) = Len(dated)
          /\ \A i \in 1..Len(dated) : \A col \in Range(numeric_cols) :
                 clean[i][col] =
                     IF col \in Unparseable(dated[i]) THEN Fin(0)
                     ELSE IF to_numeric_coerce(dated[i][col]).v < 0 THEN Fin(0)
                     ELSE to_numeric_coerce(dated[i][col])
          /\ IsSuccess(ret)
          /\ ret.data.performance.data_points = Len(dated)
          /\ \A col \in Range(numeric_cols) \ {"spend"} :
                 ret.data.totals[col] =
                     2 * Cardinality({i \in 1..Len(dated) : dated[i][col] = "2"})

C13_Witness ==
    /\ op = "process_marketing_data"
    /\ IsSuccess(ret)
    /\ Len(arg.rows) = 2
    /\ Unparseable(arg.rows[1]) = Range(numeric_cols)
    /\ Unparseable(arg.rows[2]) = {"clicks"}
    /\ ret.data.performance.data_points = 2
    /\ ret.data.totals.impressions = 2
    /\ ret.data.totals.clicks = 0

\* C14: every clean record has its four numeric fields at or above zero, a
\* negative value being clamped to zero and its row kept; every total and
\* every rate returned is at or above zero.
C14_NonNegative ==
    (op = "process_marketing_data" /\ MissingOf(arg) = {})
    => /\ Len(CleanRecords(arg)) = Len(DatedRows(arg))
       /\ \A i \in 1..Len(CleanRecords(arg)) : \A col \in Range(numeric_cols) :
              /\ ~FloatGT(Fin(0), CleanRecords(arg)[i][col])
              /\ CleanRecords(arg)[i][col].k # "nan"
       /\ IsSuccess(ret)
          => /\ ~FloatGT(Fin(0), ret.data.totals.spend)
             /\ \A col \in Range(numeric_cols) \ {"spend"} :
                    ret.data.totals[col] >= 0
             /\ \A rate \in DOMAIN ret.data.rates :
                    ~FloatGT(Fin(0), ret.data.rates[rate])
             /\ ~FloatGT(Fin(0), ret.summary.roi)

C14_Witness ==
    /\ op = "process_marketing_data"
    /\ IsSuccess(ret)
    /\ Len(arg.rows) = 2
    /\ \A col \in Range(numeric_cols) : arg.rows[1][col] = "-1"
    /\ arg.rows[2].spend = "-1"
    /\ arg.rows[2].conversions = "2"
    /\ ret.data.totals.spend = Fin(0)
    /\ ret.data.totals.conversions = 2
    /\ ret.data.performance.data_points = 2

(***************************************************************************)
(* Totals, rates and roi (SpecRates).                                      *)
(***************************************************************************)
\* the sum of a numeric column over the clean records of a file
CleanSum(file, col) == SumFloat(Column(CleanRecords(file), col))

\* value (in thousandths) is the quotient n / d (in thousandths) rounded to
\* 2 places: a multiple of 10 within half a hundredth of n / d
IsRounded2(value, n, d) ==
    LET diff == value * d - n
    IN /\ value % 10 = 0
       /\ diff <= 5 * d
       /\ diff >= -(5 * d)

\* C15: a zero total of impressions gives ctr 0.0, a zero total of clicks
\* gives conversion_rate 0.0 and cpc 0.0, a zero total of conversions gives
\* cpa 0.0, and no call on clean records fails on a division by zero.
C15_DivisionSafety ==
    (op = "process_marketing_data" /\ arg.rows # <<>>)
    => /\ ~IsInternalFailure(ret)
       /\ IsSuccess(ret)
       /\ LET totals == ret.data.totals
              rates  == ret.data.rates
          IN /\ totals.impressions = 0 => rates.ctr = Fin(0)
             /\ totals.clicks = 0 => rates.conversion_rate = Fin(0)
             /\ totals.clicks = 0 => rates.cpc = Fin(0)
             /\ totals.conversions = 0 => rates.cpa = Fin(0)

C15_Witness ==
    /\ op = "process_marketing_data"
    /\ IsSuccess(ret)
    /\ ret.data.totals.impressions = 0
    /\ ret.data.totals.clicks = 0
    /\ ret.data.totals.conversions = 0
    /\ FloatGT(ret.data.totals.spend, Fin(0))
    /\ ret.data.rates = [ctr |-> Fin(0), conversion_rate |-> Fin(0),
                         cpc |-> Fin(0), cpa |-> Fin(0)]

\* C16 as stated: with a positive sum of impressions, ctr is (sum of
\* clicks) / (sum of impressions) * 100, up to the rounding to 2 places.
C16_CtrFromSums ==
    (op = "process_marketing_data" /\ IsSuccess(ret)
        /\ FloatGT(CleanSum(arg, "impressions"), Fin(0)))
    => IsRounded2(ret.data.rates.ctr.v, CleanSum(arg, "clicks").v * 100,
                  CleanSum(arg, "impressions").v \div 1000)

\* C16, amended: ctr is computed from the totals returned, not from the
\* rates of the rows: with a positive total of impressions it is total
\* clicks / total impressions * 100 rounded to 2 places, the totals being
\* the sums truncated to integers, and a row without impressions or clicks
\* enters it only through the totals.
C16_CtrFromTotals ==
    (op = "process_marketing_data" /\ IsSuccess(ret))
    => LET totals == ret.data.totals IN
       /\ totals.clicks = IntOf(CleanSum(arg, "clicks"))
       /\ totals.impressions = IntOf(CleanSum(arg, "impressions"))
       /\ ret.data.rates.ctr.k = "fin"
       /\ totals.impressions > 0
          => IsRounded2(ret.data.rates.ctr.v, totals.clicks * 100000,
                        totals.impressions)

\* a row of 3 clicks on 10 impressions and a row of half a click without
\* impressions: 30 percent, from totals of 3 and 10
C16_Witness ==
    /\ op = "process_marketing_data"
    /\ IsSuccess(ret)
    /\ Len(arg.rows) = 2
    /\ arg.rows[1].clicks = "3" /\ arg.rows[1].impressions = "10"
    /\ arg.rows[2].clicks = "0.5" /\ arg.rows[2].impressions = "0"
    /\ ret.data.rates.ctr = Fin(30000)

\* C17: the totals of clicks, impressions and conversions are the column
\* sums truncated to integers after summation, and the total of spend is
\* the spend sum rounded to 2 places.
C17_TotalsTruncatedAndRounded ==
    (op = "process_marketing_data" /\ IsSuccess(ret))
    => /\ \A col \in {"clicks", "impressions", "conversions"} :
              ret.data.totals[col] = IntOf(CleanSum(arg, col))
       /\ ret.data.totals.spend = Round2(CleanSum(arg, "spend").v, 1)

\* C18: roi is 0 when the total spend is 0 and otherwise total conversions
\* * 100 / max(total spend, 1) rounded to 2 places, the divisor being 1 for
\* a spend between 0 and 1; no call on clean records fails on it.
C18_Roi ==
    (op = "process_marketing_data" /\ arg.rows # <<>>)
    => /\ IsSuccess(ret)
       /\ LET spend   == ret.data.totals.spend
              divisor == IF spend.v > 1000 THEN spend.v ELSE 1000
          IN /\ ret.summary.roi.k = "fin"
             /\ spend = Fin(0) => ret.summary.roi = Fin(0)
             /\ spend # Fin(0)
                => IsRounded2(ret.summary.roi.v,
                              ret.data.totals.conversions * 100000000, divisor)

C18_Witness ==
    /\ op = "process_marketing_data"
    /\ IsSuccess(ret)
    /\ ret.data.totals.spend = Fin(250)
    /\ ret.data.totals.conversions = 2
    /\ ret.summary.roi = Fin(200000)

(***************************************************************************)
(* The temporary file of a report request (SpecUpload).                    *)
(***************************************************************************)
\* C19: once a report request is done, whatever its exit path, no temporary
\* file it created is left on disk and no descriptor it opened is open.
C19_ResourcesReleased ==
    op = "generate_report" => fs = EmptyFs

(***************************************************************************)
(* The narrative fallback (SpecAnalysis).                                  *)
(***************************************************************************)
\* the LLM call failed, or its output is no JSON, or the output lacks a
\* required key
AnalysisFails(input) ==
    \/ input.reply.raises # "none"
    \/ input.reply.content = None
    \/ input.reply.content.json = "none"
    \/ ~(Range(required_keys) \subseteq input.reply.content.has)

\* C20: generate_analysis never raises, and whenever the LLM call fails or
\* its output is no JSON or lacks a required key it returns one and the
\* same fallback object, with the keys executive_summary, key_insights and
\* recommendations.
C20_FixedFallback ==
    op = "generate_analysis"
    => /\ DOMAIN ret # {"raised"}
       /\ AnalysisFails(arg)
          => /\ DOMAIN ret = Range(required_keys)
             /\ \A other \in [metrics : MetricsDicts, reply : Replies] :
                    AnalysisFails(other)
                    => generate_analysis(other.metrics, other.reply) = ret

(***************************************************************************)
(* The narrative generator is called on metrics only (SpecReport).         *)
(***************************************************************************)
\* the metrics dict holds the totals, the rates and both days
FullyPopulated(metrics) ==
    DOMAIN metrics =
        {"total_spend", "total_clicks", "total_impressions",
         "total_conversions", "ctr", "conversion_rate", "cost_per_conversion",
         "best_day", "worst_day"}

\* the calls of get_ai_analysis the orchestrator made
AiCalls == SelectSeq(path, LAMBDA c : c.call = "get_ai_analysis")

\* C21: generate_report_from_csv calls get_ai_analysis only after
\* get_metrics returned, and only with a fully populated metrics dict; when
\* get_metrics raises or yields no metrics (a file without data rows) it
\* does not call it and returns the error dict with metrics None.
C21_NarrativeOnlyOnMetrics ==
    op = "generate_report_from_csv"
    => LET metrics == get_metrics(arg.file) IN
       /\ \A i \in 1..Len(AiCalls) : FullyPopulated(AiCalls[i].metrics)
       /\ (DOMAIN metrics = {"raised"} \/ metrics = EmptyDict)
          => /\ AiCalls = <<>>
             /\ DOMAIN ret = {"error", "metrics", "summary", "recommendations"}
             /\ ret.metrics = None

(***************************************************************************)
(* The two engines (SpecEquiv).                                            *)
(***************************************************************************)
\* what the two envelopes are compared on: the status and, of a success,
\* the totals, the rates, both days and data_points
Observed(e) ==
    IF IsSuccess(e)
    THEN [status |-> e.status, totals |-> e.data.totals, rates |-> e.data.rates,
          best_day |-> e.data.performance.best_day,
          worst_day |-> e.data.performance.worst_day,
          data_points |-> e.data.performance.data_points]
    ELSE [status |-> e.status]

\* C22: for every table, process_csv of OptimizedMarketingDataEngine
\* returns the status, totals, rates, best_day, worst_day and data_points
\* that process_csv of MarketingDataEngine returns.
C22_EnginesEquivalent ==
    op = "optimized_process_csv"
    => Observed(ret) = Observed(process_csv(NewEngine, arg, clock).ret)

(***************************************************************************)
(* Batch accounting (SpecBatch).                                           *)
(***************************************************************************)
\* the positions of the files of a batch whose processing succeeds
Succeeded(file_paths) ==
    {i \in 1..Len(file_paths) :
        IsSuccess(process_marketing_data(file_paths[i], 0).ret)}

\* the totals of the file at position i of a batch
TotalsOf(file_paths, i) == process_marketing_data(file_paths[i], 0).ret.data.totals

RECURSIVE SumTotal(_, _, _)
\* the sum of an integer total over the positions of I
SumTotal(file_paths, I, col) ==
    IF I = {} THEN 0
    ELSE LET i == CHOOSE j \in I : TRUE
         IN TotalsOf(file_paths, i)[col] + SumTotal(file_paths, I \ {i}, col)

RECURSIVE SumSpend(_, _)
\* the sum of the spend total over the positions of I
SumSpend(file_paths, I) ==
    IF I = {} THEN Fin(0)
    ELSE LET i == CHOOSE j \in I : TRUE
         IN AddFloat(TotalsOf(file_paths, i).spend, SumSpend(file_paths, I \ {i}))

\* C23: batch_process_files counts every path once, as processed or as
\* failed, returns one file_results entry per path in the order of the
\* paths, and each aggregated total is the sum of that total over the
\* files that succeeded, a failed file adding nothing.
C23_BatchAccounting ==
    op = "batch_process_files"
    => LET totals == ret.aggregated_metrics.totals IN
       /\ ret.files_processed + ret.files_failed = Len(arg)
       /\ ret.files_processed = Cardinality(Succeeded(arg))
       /\ Len(ret.file_results) = Len(arg)
       /\ \A i \in 1..Len(arg) :
              /\ ret.file_results[i].file = arg[i]
              /\ ret.file_results[i].status = "success" <=> i \in Succeeded(arg)
       /\ totals.spend = SumSpend(arg, Succeeded(arg))
       /\ \A col \in {"clicks", "impressions", "conversions"} :
              totals[col] = SumTotal(arg, Succeeded(arg), col)

C23_Witness ==
    /\ op = "batch_process_files"
    /\ Len(arg) = 3
    /\ Succeeded(arg) = {1, 3}
    /\ arg[1] # arg[3]
    /\ ~arg[2].readable
    /\ ret.files_processed = 2
    /\ ret.files_failed = 1
    /\ ret.aggregated_metrics.totals.conversions = 3
    /\ ret.aggregated_metrics.totals.spend = Fin(2000)

====
